---- MODULE Spec2Model ----
(***************************************************************************)
(* Quota enforcement and billing reconciliation of the palette generator:  *)
(* the HTTP handlers of server/routes.ts, the storage operations of        *)
(* server/storage.ts, the webhook handler of server/stripe.ts and the      *)
(* advisory-lock writer createGenerationIfAllowed.                          *)
(*                                                                         *)
(* Every `await` of a handler is one step of its request slot, so that     *)
(* concurrent requests interleave exactly where the event loop lets them.  *)
(***************************************************************************)
EXTENDS Integers, Sequences, FiniteSets, TLC

\* ------------------------------------------------------------------ bounds
\* Request slots: HTTP requests in flight at the same time.
MaxReqs == 2
\* Requests accepted over a run.
MaxRequests == 3
\* Calendar-month changes over a run.
MaxMonthTicks == 1
\* Calls of createGenerationIfAllowed in flight at the same time.
MaxCalls == 2
\* Calls of start(), and direct calls of runStripeMigrations, over a run.
MaxStarts == 3
\* Calls of stop() over a run.
MaxStops == 2
\* Webhook endpoints a Stripe account may hold before create answers that the
\* maximum is reached.
MaxEndpoints == 2

\* ------------------------------------------------------- program constants
PRICE_10_PACK == "price_10pack"
PRICE_PRO == "price_pro"
PRICE_UNLIMITED == "price_unlimited"
PRICE_IDS == {PRICE_10_PACK, PRICE_PRO, PRICE_UNLIMITED}

CREDITS_10 == 10
PRO_LIMIT == 100
UNLIMITED == -1
FREE_LIMIT == 1

\* A map that falls back to the pack's amount for a price it has no entry for.
CreditsMapWithDefault(priceId) == CREDITS_10

\* CREDITS_MAP[priceId], 0 where the map has no entry (undefined is falsy).
CREDITS_MAP(priceId) == IF priceId = PRICE_10_PACK THEN CREDITS_10 ELSE 0

\* SUBSCRIPTION_LIMITS, as the set of price ids it has an entry for and the entry.
LimitedPrices == {PRICE_PRO, PRICE_UNLIMITED}
SUBSCRIPTION_LIMITS(priceId) == IF priceId = PRICE_PRO THEN PRO_LIMIT ELSE UNLIMITED

\* A selection that leaves out the statuses of failed payments.
PaidUpStatuses == {"active", "trialing"}

\* Statuses getActiveSubscription selects.
EntitlingStatuses == {"active", "trialing", "past_due", "unpaid"}

\* ------------------------------------------------------------------ domains
None == "none"
Users == {"Aa", "BB", "C"}
\* The users whose browser sessions send requests in a run.
Callers == {"Aa", "BB"}
CustomerIds == {"cus_1", "cus_2"}
SubIds == {"sub_1"}
Slots == 1..MaxReqs

NoCredits == [row |-> FALSE, credits |-> 0]
NoSub == [row |-> FALSE, customer |-> None, status |-> None, priceId |-> None]

\* ---------------------------------------------------------------- variables
VARIABLES
    generations,    \* generations table: per user, rows created before / in this month
    userCredits,    \* user_credits table: per user, the row (if any) and its credits
    customers,      \* customers table: stripe customer id -> user id (None: no row)
    subscriptions,  \* subscriptions table: stripe subscription id -> row
    reqs,           \* request slots: the handler in flight in each and its locals,
                    \* or the response its last handler sent
    budget,         \* requests and month changes the run may still take
    granted,        \* history: credits added to each user's balance so far
    applied,        \* history: times each event's credit grant was applied
    creditGens,     \* history: generations created as credit-sourced, per user
    txs,            \* createGenerationIfAllowed: the transaction of each call
    endpoints,      \* Stripe: the account's webhook endpoints, by endpoint id
    webhookState,   \* webhook_state table: the row cached for the public URL
    server,         \* the StripeSyncServer object and the position of its start()
    handler,        \* the StripeSyncHandler object and the position of its start()
    migrationsDir,  \* the file names in the sync engine's dist/migrations
    migrations,     \* <schema>.migrations table: the rows recorded
    ran,            \* history: the migration files whose SQL was run, in order
    runner          \* runStripeMigrations: the invocation in progress

\* The tables and counters of the application, and the state of the Stripe Sync
\* start-up around it.
app == <<generations, userCredits, customers, subscriptions, reqs,
         budget, granted, applied, creditGens, txs>>
ops == <<endpoints, webhookState, server, handler, migrationsDir, migrations,
         ran, runner>>

vars == <<generations, userCredits, customers, subscriptions, reqs,
          budget, granted, applied, creditGens, txs,
          endpoints, webhookState, server, handler, migrationsDir, migrations,
          ran, runner>>

db == <<generations, userCredits, customers, subscriptions>>
hist == <<granted, applied, creditGens>>

\* --------------------------------------------------- billing event payloads
\* The payment processor's events this model delivers, by event id.
EventIds == {"evt_cust", "evt_sub", "evt_unl", "evt_del", "evt_pay",
             "evt_pay2", "evt_payx", "evt_cksub", "evt_other"}

Event(type, customer, userId, sub, status, priceId, mode) ==
    [type |-> type, customer |-> customer, userId |-> userId, sub |-> sub,
     status |-> status, priceId |-> priceId, mode |-> mode]

EventOf(id) ==
    CASE id = "evt_cust"  -> Event("customer.created", "cus_1", "Aa", None, None, None, None)
      [] id = "evt_sub"   -> Event("customer.subscription.created", "cus_1", None,
                                "sub_1", "active", PRICE_PRO, None)
      [] id = "evt_unl"   -> Event("customer.subscription.updated", "cus_1", None,
                                "sub_1", "active", PRICE_UNLIMITED, None)
      [] id = "evt_del"   -> Event("customer.subscription.deleted", "cus_1", None,
                                "sub_1", "canceled", PRICE_PRO, None)
      [] id = "evt_pay"   -> Event("checkout.session.completed", "cus_1", None, None,
                                None, PRICE_10_PACK, "payment")
      [] id = "evt_pay2"  -> Event("checkout.session.completed", "cus_2", None, None,
                                None, PRICE_10_PACK, "payment")
      [] id = "evt_payx"  -> Event("checkout.session.completed", "cus_1", None, None,
                                None, "price_other", "payment")
      [] id = "evt_cksub" -> Event("checkout.session.completed", "cus_1", None, None,
                                None, PRICE_PRO, "subscription")
      [] OTHER            -> Event("invoice.paid", "cus_1", None, None, None, None, None)

\* stripe-signature header of a delivery: absent, not verifying, verifying.
Signatures == {"missing", "bad", "valid"}

\* A verification that only asks for the header to be present.
SignatureVerifiesIfPresent(sig) == sig # "missing"

\* stripe.webhooks.constructEvent: throws unless the header verifies over the payload.
SignatureVerifies(sig) == sig = "valid"

\* ------------------------------------------------------- storage operations
\* getUserGenerations(userId).length
TotalGenerations(u) == generations[u].old + generations[u].cur

\* A count that has no start-of-month condition.
countUserGenerationsAllTime(u) == generations[u].old + generations[u].cur

\* countUserGenerationsThisMonth(userId): rows with createdAt >= start of month
countUserGenerationsThisMonth(u) == generations[u].cur

\* getCustomerByUserId(userId): the customer row of the user, or None
CustomersOf(u) == {c \in CustomerIds : customers[c] = u}
getCustomerByUserId(u) ==
    IF CustomersOf(u) = {} THEN None ELSE CHOOSE c \in CustomersOf(u) : TRUE

\* getActiveSubscription(customerId): a row of the customer in an entitling status
ActiveSubsOf(c) ==
    {s \in SubIds : /\ subscriptions[s].row
                    /\ subscriptions[s].customer = c
                    /\ subscriptions[s].status \in EntitlingStatuses}
getActiveSubscription(c) ==
    IF ActiveSubsOf(c) = {} THEN NoSub
    ELSE subscriptions[CHOOSE s \in ActiveSubsOf(c) : TRUE]

\* ------------------------------------------------- entitlement calculation
\* monthlyLimit of /api/user/status: 1 unless the subscription's price has a limit.
MonthlyLimit(sub) ==
    IF sub.row /\ sub.priceId # None /\ sub.priceId \in LimitedPrices
    THEN SUBSCRIPTION_LIMITS(sub.priceId)
    ELSE FREE_LIMIT

\* The free-tier value clamped at 0.
RemainingClamped(total, monthly, credits, hasSub, limit) ==
    IF hasSub
    THEN IF limit = UNLIMITED THEN UNLIMITED ELSE limit - monthly
    ELSE IF credits > 0 THEN credits
    ELSE IF 1 - total < 0 THEN 0 ELSE 1 - total

\* The subscription branch without the test for the unlimited plan.
RemainingNoSentinel(total, monthly, credits, hasSub, limit) ==
    IF hasSub THEN limit - monthly
    ELSE IF credits > 0 THEN credits ELSE 1 - total

\* The credits rule tried before the subscription rule.
RemainingCreditsFirst(total, monthly, credits, hasSub, limit) ==
    IF credits > 0 THEN credits
    ELSE IF hasSub
    THEN IF limit = UNLIMITED THEN UNLIMITED ELSE limit - monthly
    ELSE 1 - total

\* remainingGenerations of /api/user/status.
RemainingGenerations(total, monthly, credits, hasSub, limit) ==
    IF hasSub
    THEN IF limit = UNLIMITED THEN UNLIMITED ELSE limit - monthly
    ELSE IF credits > 0 THEN credits ELSE 1 - total

\* isUnlimited of /api/user/status.
IsUnlimited(limit) == limit = UNLIMITED

\* A gate that answers 403 only below zero.
GenerateBlockedNegative(remaining) == remaining < 0

\* The gate of POST /api/generate: answers 403 when this holds.
GenerateBlocked(remaining) == remaining = 0

\* The test without its subscription half.
UsesCreditWithSubscription(credits, hasSub) == credits > 0

\* Whether POST /api/generate deducts a credit after creating the generation.
UsesCredit(credits, hasSub) == credits > 0 /\ ~hasSub

\* ------------------------------------------------------------ request slots
Idle ==
    [kind |-> None, pc |-> "idle", user |-> None, total |-> 0, monthly |-> 0,
     credits |-> 0, customer |-> None, hasSub |-> FALSE, event |-> None,
     sig |-> None, priceId |-> None, code |-> 0, remaining |-> 0,
     unlimited |-> FALSE]

\* res.status(code).json(...): the handler of slot r ends; the slot keeps the kind
\* of request, the event delivered and the status code it answered until the next
\* request arrives.
Respond(r, code) ==
    reqs' = [reqs EXCEPT ![r] = [Idle EXCEPT !.kind = reqs[r].kind, !.code = code,
                                            !.event = reqs[r].event]]

\* res.json({ totalGenerations, ..., remainingGenerations, ..., isUnlimited }) of
\* GET /api/user/status: the slot keeps the entitlement it answered as well.
RespondStatus(r, status) ==
    reqs' = [reqs EXCEPT ![r] = [Idle EXCEPT !.kind = reqs[r].kind, !.code = 200,
                                            !.remaining = status.remainingGenerations,
                                            !.unlimited = status.isUnlimited]]

\* The handler of slot r goes on to its next await with locals `rec`.
Continue(r, rec) == reqs' = [reqs EXCEPT ![r] = rec]

At(r, kinds, pc) == reqs[r].kind \in kinds /\ reqs[r].pc = pc

\* ------------------------------------------------------ GET /api/user/status
\* A status query arrives (also the one POST /api/generate fetches for itself).
StatusArrive(r, u) ==
    /\ reqs[r].pc = "idle"
    /\ budget.req > 0
    /\ budget' = [budget EXCEPT !.req = @ - 1]
    /\ Continue(r, [Idle EXCEPT !.kind = "status", !.pc = "s_gens", !.user = u])
    /\ UNCHANGED <<db, hist, txs>>
    /\ UNCHANGED ops

\* const generations = await storage.getUserGenerations(userId)
StatusGenerations(r) ==
    /\ At(r, {"status", "gen"}, "s_gens")
    /\ Continue(r, [reqs[r] EXCEPT !.pc = "s_month",
                                   !.total = TotalGenerations(reqs[r].user)])
    /\ UNCHANGED <<db, hist, budget, txs>>
    /\ UNCHANGED ops

\* const monthlyGenerations = await storage.countUserGenerationsThisMonth(userId)
StatusMonthly(r) ==
    /\ At(r, {"status", "gen"}, "s_month")
    /\ Continue(r, [reqs[r] EXCEPT !.pc = "s_cred",
                       !.monthly = countUserGenerationsThisMonth(reqs[r].user)])
    /\ UNCHANGED <<db, hist, budget, txs>>
    /\ UNCHANGED ops

\* getUserCredits, the select: the row's credits, or on to the insert of a row.
StatusCreditsSelect(r) ==
    /\ At(r, {"status", "gen"}, "s_cred")
    /\ LET row == userCredits[reqs[r].user]
       IN  IF row.row
           THEN Continue(r, [reqs[r] EXCEPT !.pc = "s_cust", !.credits = row.credits])
           ELSE Continue(r, [reqs[r] EXCEPT !.pc = "s_credIns"])
    /\ UNCHANGED <<db, hist, budget, txs>>
    /\ UNCHANGED ops

\* The insert into a table with no unique index on user_id: it never throws, and
\* the zero row it adds is the one the next select returns.
StatusCreditsInsertNoIndex(r) ==
    /\ At(r, {"status", "gen"}, "s_credIns")
    /\ LET u == reqs[r].user
       IN  /\ userCredits' = [userCredits EXCEPT ![u] = [row |-> TRUE, credits |-> 0]]
           /\ Continue(r, [reqs[r] EXCEPT !.pc = "s_cust", !.credits = 0])
    /\ UNCHANGED <<generations, customers, subscriptions, hist, budget, txs>>
    /\ UNCHANGED ops

\* getUserCredits, the insert of { userId, credits: 0 }; user_id is unique, so the
\* insert throws when a concurrent request has inserted the row: status 500.
StatusCreditsInsert(r) ==
    /\ At(r, {"status", "gen"}, "s_credIns")
    /\ LET u == reqs[r].user
       IN  IF userCredits[u].row
           THEN /\ Respond(r, 500)
                /\ UNCHANGED userCredits
           ELSE /\ userCredits' = [userCredits EXCEPT ![u] = [row |-> TRUE, credits |-> 0]]
                /\ Continue(r, [reqs[r] EXCEPT !.pc = "s_cust", !.credits = 0])
    /\ UNCHANGED <<generations, customers, subscriptions, hist, budget, txs>>
    /\ UNCHANGED ops

\* The status handler has read everything: it answers, and POST /api/generate,
\* which fetched it, goes on to its gate, its validation and createGeneration.
StatusResult(q, sub) ==
    [totalGenerations |-> q.total,
     monthlyGenerations |-> q.monthly,
     credits |-> q.credits,
     remainingGenerations |->
        RemainingGenerations(q.total, q.monthly, q.credits, sub.row, MonthlyLimit(sub)),
     hasSubscription |-> sub.row,
     isUnlimited |-> IsUnlimited(MonthlyLimit(sub))]

StatusDone(r, sub, valid) ==
    LET q == reqs[r]
        status == StatusResult(q, sub)
    IN  IF q.kind = "status" THEN RespondStatus(r, status)
        ELSE IF GenerateBlocked(status.remainingGenerations) THEN Respond(r, 403)
        ELSE IF ~valid THEN Respond(r, 400)
        ELSE Continue(r, [Idle EXCEPT !.kind = "gen", !.pc = "g_create",
                                      !.user = q.user, !.credits = status.credits,
                                      !.hasSub = status.hasSubscription])

\* const customer = await storage.getCustomerByUserId(userId)
StatusCustomer(r, valid) ==
    /\ At(r, {"status", "gen"}, "s_cust")
    /\ LET c == getCustomerByUserId(reqs[r].user)
       IN  IF c = None
           THEN StatusDone(r, NoSub, valid)
           ELSE Continue(r, [reqs[r] EXCEPT !.pc = "s_sub", !.customer = c])
    /\ UNCHANGED <<db, hist, budget, txs>>
    /\ UNCHANGED ops

\* subscription = await storage.getActiveSubscription(customer.id)
StatusSubscription(r, valid) ==
    /\ At(r, {"status", "gen"}, "s_sub")
    /\ StatusDone(r, getActiveSubscription(reqs[r].customer), valid)
    /\ UNCHANGED <<db, hist, budget, txs>>
    /\ UNCHANGED ops

\* getActiveSubscription when its query throws: the catch logs the error and
\* returns null, which the handler takes for no subscription.
StatusSubscriptionFails(r, valid) ==
    /\ At(r, {"status", "gen"}, "s_sub")
    /\ StatusDone(r, NoSub, valid)
    /\ UNCHANGED <<db, hist, budget, txs>>
    /\ UNCHANGED ops

\* -------------------------------------------------------- POST /api/generate
\* A generation attempt arrives; it first fetches /api/user/status for its user.
GenerateArrive(r, u) ==
    /\ reqs[r].pc = "idle"
    /\ budget.req > 0
    /\ budget' = [budget EXCEPT !.req = @ - 1]
    /\ Continue(r, [Idle EXCEPT !.kind = "gen", !.pc = "s_gens", !.user = u])
    /\ UNCHANGED <<db, hist, txs>>
    /\ UNCHANGED ops

\* const generation = await storage.createGeneration(result.data), then either the
\* response or on to deductCredit. A failing insert throws: status 500.
GenerateCreate(r, fails) ==
    /\ At(r, {"gen"}, "g_create")
    /\ LET q == reqs[r]
       IN  IF fails
           THEN /\ Respond(r, 500)
                /\ UNCHANGED <<generations, creditGens>>
           ELSE /\ generations' = [generations EXCEPT ![q.user].cur = @ + 1]
                /\ IF UsesCredit(q.credits, q.hasSub)
                   THEN /\ Continue(r, [q EXCEPT !.pc = "g_deduct"])
                        /\ creditGens' = [creditGens EXCEPT ![q.user] = @ + 1]
                   ELSE /\ Respond(r, 200)
                        /\ UNCHANGED creditGens
    /\ UNCHANGED <<userCredits, customers, subscriptions, granted, applied, budget, txs>>
    /\ UNCHANGED ops

\* await storage.deductCredit(userId): UPDATE user_credits SET credits = credits - 1
\* WHERE user_id = userId. A failing update throws: status 500.
deductCredit(u) ==
    IF userCredits[u].row
    THEN [userCredits EXCEPT ![u].credits = @ - 1]
    ELSE userCredits

GenerateDeduct(r, fails) ==
    /\ At(r, {"gen"}, "g_deduct")
    /\ IF fails
       THEN /\ Respond(r, 500)
            /\ UNCHANGED userCredits
       ELSE /\ userCredits' = deductCredit(reqs[r].user)
            /\ Respond(r, 200)
    /\ UNCHANGED <<generations, customers, subscriptions, hist, budget, txs>>
    /\ UNCHANGED ops

\* ------------------------------------------------------- storage.addCredits
\* addCredits is getUserCredits (select, insert of a zero row when there is none)
\* and then UPDATE user_credits SET credits = credits + amount. Both the webhook's
\* checkout.session.completed case and POST /api/stripe/payment-success call it.
Granting == {"webhook", "payment"}

AddCreditsSelect(r) ==
    /\ At(r, Granting, "a_sel")
    /\ Continue(r, [reqs[r] EXCEPT
                      !.pc = IF userCredits[reqs[r].user].row THEN "a_upd" ELSE "a_ins"])
    /\ UNCHANGED <<db, hist, budget, txs>>
    /\ UNCHANGED ops

\* The insert with its error swallowed: the request is answered as if it had
\* been applied.
AddCreditsInsertSwallowed(r) ==
    /\ At(r, Granting, "a_ins")
    /\ LET u == reqs[r].user
       IN  IF userCredits[u].row
           THEN /\ Respond(r, 200)
                /\ UNCHANGED userCredits
           ELSE /\ userCredits' = [userCredits EXCEPT ![u] = [row |-> TRUE, credits |-> 0]]
                /\ Continue(r, [reqs[r] EXCEPT !.pc = "a_upd"])
    /\ UNCHANGED <<generations, customers, subscriptions, hist, budget, txs>>
    /\ UNCHANGED ops

AddCreditsInsert(r) ==
    /\ At(r, Granting, "a_ins")
    /\ LET u == reqs[r].user
       IN  IF userCredits[u].row
           THEN /\ Respond(r, 500)
                /\ UNCHANGED userCredits
           ELSE /\ userCredits' = [userCredits EXCEPT ![u] = [row |-> TRUE, credits |-> 0]]
                /\ Continue(r, [reqs[r] EXCEPT !.pc = "a_upd"])
    /\ UNCHANGED <<generations, customers, subscriptions, hist, budget, txs>>
    /\ UNCHANGED ops

\* The update writing the amount over the balance instead of adding it.
AddCreditsOverwrite(r) ==
    /\ At(r, Granting, "a_upd")
    /\ LET q == reqs[r]
           amount == CREDITS_MAP(q.priceId)
       IN  /\ userCredits' = [userCredits EXCEPT ![q.user].credits = amount]
           /\ granted' = [granted EXCEPT ![q.user] = @ + amount]
           /\ applied' = IF q.kind = "webhook"
                         THEN [applied EXCEPT ![q.event] = @ + 1]
                         ELSE applied
    /\ Respond(r, 200)
    /\ UNCHANGED <<generations, customers, subscriptions, creditGens, budget, txs>>
    /\ UNCHANGED ops

AddCreditsUpdate(r) ==
    /\ At(r, Granting, "a_upd")
    /\ LET q == reqs[r]
           amount == CREDITS_MAP(q.priceId)
       IN  /\ userCredits' = [userCredits EXCEPT ![q.user].credits = @ + amount]
           /\ granted' = [granted EXCEPT ![q.user] = @ + amount]
           /\ applied' = IF q.kind = "webhook"
                         THEN [applied EXCEPT ![q.event] = @ + 1]
                         ELSE applied
    /\ Respond(r, 200)
    /\ UNCHANGED <<generations, customers, subscriptions, creditGens, budget, txs>>
    /\ UNCHANGED ops

\* -------------------------------------------------- POST /api/stripe/webhook
\* The processor delivers event e with signature header sig.
WebhookArrive(r, e, sig) ==
    /\ reqs[r].pc = "idle"
    /\ budget.req > 0
    /\ budget' = [budget EXCEPT !.req = @ - 1]
    /\ Continue(r, [Idle EXCEPT !.kind = "webhook", !.pc = "w_recv", !.event = e,
                                !.sig = sig])
    /\ UNCHANGED <<db, hist, txs>>
    /\ UNCHANGED ops

\* The handler up to its first await: the signature check, then the switch on
\* event.type. Cases with nothing to await answer { received: true } at once.
WebhookVerify(r) ==
    /\ At(r, {"webhook"}, "w_recv")
    /\ LET q == reqs[r]
           e == EventOf(q.event)
       IN  IF q.sig = "missing" \/ ~SignatureVerifies(q.sig)
           THEN Respond(r, 400)
           ELSE CASE e.type \in {"customer.created", "customer.updated"} ->
                       IF e.userId # None
                       THEN Continue(r, [q EXCEPT !.pc = "w_custUpsert"])
                       ELSE Respond(r, 200)
                  [] e.type \in {"customer.subscription.created",
                                 "customer.subscription.updated"} ->
                       Continue(r, [q EXCEPT !.pc = "w_subCust"])
                  [] e.type = "customer.subscription.deleted" ->
                       Continue(r, [q EXCEPT !.pc = "w_subDel"])
                  [] e.type = "checkout.session.completed" ->
                       IF e.mode = "payment" /\ e.priceId # None
                                             /\ CREDITS_MAP(e.priceId) # 0
                       THEN Continue(r, [q EXCEPT !.pc = "w_payCust",
                                                  !.priceId = e.priceId])
                       ELSE Respond(r, 200)
                  [] OTHER -> Respond(r, 200)
    /\ UNCHANGED <<db, hist, budget, txs>>
    /\ UNCHANGED ops

\* customer.created / customer.updated: insert (stripeCustomerId, userId, email),
\* on conflict with the customer id update the email only.
WebhookCustomerUpsert(r) ==
    /\ At(r, {"webhook"}, "w_custUpsert")
    /\ LET e == EventOf(reqs[r].event)
       IN  customers' = IF customers[e.customer] = None
                        THEN [customers EXCEPT ![e.customer] = e.userId]
                        ELSE customers
    /\ Respond(r, 200)
    /\ UNCHANGED <<generations, userCredits, subscriptions, hist, budget, txs>>
    /\ UNCHANGED ops

\* customer.subscription.created / updated: select the customer row.
WebhookSubscriptionCustomer(r) ==
    /\ At(r, {"webhook"}, "w_subCust")
    /\ IF customers[EventOf(reqs[r].event).customer] # None
       THEN Continue(r, [reqs[r] EXCEPT !.pc = "w_subUpsert"])
       ELSE Respond(r, 200)
    /\ UNCHANGED <<db, hist, budget, txs>>
    /\ UNCHANGED ops

\* ... then insert the subscription row, on conflict with the subscription id
\* update status and priceId.
WebhookSubscriptionUpsert(r) ==
    /\ At(r, {"webhook"}, "w_subUpsert")
    /\ LET e == EventOf(reqs[r].event)
       IN  subscriptions' =
             IF subscriptions[e.sub].row
             THEN [subscriptions EXCEPT ![e.sub].status = e.status,
                                        ![e.sub].priceId = e.priceId]
             ELSE [subscriptions EXCEPT ![e.sub] =
                     [row |-> TRUE, customer |-> e.customer, status |-> e.status,
                      priceId |-> e.priceId]]
    /\ Respond(r, 200)
    /\ UNCHANGED <<generations, userCredits, customers, hist, budget, txs>>
    /\ UNCHANGED ops

\* A cancellation that also removes the generations of the month.
WebhookSubscriptionDeletePurges(r) ==
    /\ At(r, {"webhook"}, "w_subDel")
    /\ LET e == EventOf(reqs[r].event)
       IN  /\ subscriptions' = IF subscriptions[e.sub].row
                               THEN [subscriptions EXCEPT ![e.sub].status = "canceled"]
                               ELSE subscriptions
           /\ generations' = [u \in Users |->
                                IF customers[e.customer] = u
                                THEN [generations[u] EXCEPT !.cur = 0]
                                ELSE generations[u]]
    /\ Respond(r, 200)
    /\ UNCHANGED <<userCredits, customers, hist, budget, txs>>
    /\ UNCHANGED ops

\* customer.subscription.deleted: UPDATE subscriptions SET status = 'canceled'.
WebhookSubscriptionDelete(r) ==
    /\ At(r, {"webhook"}, "w_subDel")
    /\ LET e == EventOf(reqs[r].event)
       IN  subscriptions' = IF subscriptions[e.sub].row
                            THEN [subscriptions EXCEPT ![e.sub].status = "canceled"]
                            ELSE subscriptions
    /\ Respond(r, 200)
    /\ UNCHANGED <<generations, userCredits, customers, hist, budget, txs>>
    /\ UNCHANGED ops

\* checkout.session.completed for a credit pack: select the customer row, and call
\* addCredits when it has a user.
\* The lookup without the `customer &&` guard: customer.userId of no row throws,
\* and the handler's catch answers 500.
WebhookCheckoutCustomerUnguarded(r) ==
    /\ At(r, {"webhook"}, "w_payCust")
    /\ LET u == customers[EventOf(reqs[r].event).customer]
       IN  IF u # None
           THEN Continue(r, [reqs[r] EXCEPT !.pc = "a_sel", !.user = u])
           ELSE Respond(r, 500)
    /\ UNCHANGED <<db, hist, budget, txs>>
    /\ UNCHANGED ops

WebhookCheckoutCustomer(r) ==
    /\ At(r, {"webhook"}, "w_payCust")
    /\ LET u == customers[EventOf(reqs[r].event).customer]
       IN  IF u # None
           THEN Continue(r, [reqs[r] EXCEPT !.pc = "a_sel", !.user = u])
           ELSE Respond(r, 200)
    /\ UNCHANGED <<db, hist, budget, txs>>
    /\ UNCHANGED ops

\* ------------------------------------------ POST /api/stripe/payment-success
\* The route has no middleware: any caller posts { customerId, priceId }.
PaymentArrive(r, c, priceId) ==
    /\ reqs[r].pc = "idle"
    /\ budget.req > 0
    /\ budget' = [budget EXCEPT !.req = @ - 1]
    /\ Continue(r, [Idle EXCEPT !.kind = "payment", !.pc = "p_cust", !.customer = c,
                                !.priceId = priceId])
    /\ UNCHANGED <<db, hist, txs>>
    /\ UNCHANGED ops

\* const customer = await storage.getCustomerByStripeId(customerId)
PaymentCustomer(r) ==
    /\ At(r, {"payment"}, "p_cust")
    /\ LET q == reqs[r]
           u == customers[q.customer]
       IN  IF u = None THEN Respond(r, 404)
           ELSE IF CREDITS_MAP(q.priceId) # 0
           THEN Continue(r, [q EXCEPT !.pc = "a_sel", !.user = u])
           ELSE Respond(r, 200)
    /\ UNCHANGED <<db, hist, budget, txs>>
    /\ UNCHANGED ops

\* --------------------------------------------------------- POST /api/checkout
\* The request arrives with the priceId of its body (None: no priceId); a missing
\* priceId or one that is not a value of PRICE_IDS is answered 400 before any await.
CheckoutPrices == {PRICE_10_PACK, PRICE_PRO, "price_other", None}

CheckoutArrive(r, u, priceId) ==
    /\ reqs[r].pc = "idle"
    /\ budget.req > 0
    /\ budget' = [budget EXCEPT !.req = @ - 1]
    /\ LET q == [Idle EXCEPT !.kind = "checkout", !.user = u, !.priceId = priceId]
       IN  IF priceId = None \/ priceId \notin PRICE_IDS
           THEN Continue(r, [q EXCEPT !.code = 400])
           ELSE Continue(r, [q EXCEPT !.pc = "c_user"])
    /\ UNCHANGED <<db, hist, txs>>
    /\ UNCHANGED ops

\* const user = await storage.getUser(userId): 400 without a user with an email.
CheckoutUser(r, hasEmail) ==
    /\ At(r, {"checkout"}, "c_user")
    /\ IF hasEmail THEN Continue(r, [reqs[r] EXCEPT !.pc = "c_sel"])
       ELSE Respond(r, 400)
    /\ UNCHANGED <<db, hist, budget, txs>>
    /\ UNCHANGED ops

\* getOrCreateStripeCustomer, the select of the user's customers row: with a row
\* its stripeCustomerId is returned, without one the customer is created.
CheckoutSelect(r) ==
    /\ At(r, {"checkout"}, "c_sel")
    /\ LET c == getCustomerByUserId(reqs[r].user)
       IN  IF c # None
           THEN Continue(r, [reqs[r] EXCEPT !.pc = "c_session", !.customer = c])
           ELSE Continue(r, [reqs[r] EXCEPT !.pc = "c_create"])
    /\ UNCHANGED <<db, hist, budget, txs>>
    /\ UNCHANGED ops

\* Customer ids the processor has not handed out: neither in a customers row nor
\* returned to a checkout still in flight.
FreshCustomerIds ==
    {c \in CustomerIds :
        /\ customers[c] = None
        /\ \A r \in Slots : ~(reqs[r].kind = "checkout" /\ reqs[r].customer = c)}

\* await stripe.customers.create({ email, metadata: { userId } }): the processor
\* creates a customer and returns its new id.
CheckoutCreateCustomer(r) ==
    /\ At(r, {"checkout"}, "c_create")
    /\ \E c \in FreshCustomerIds :
          Continue(r, [reqs[r] EXCEPT !.pc = "c_ins", !.customer = c])
    /\ UNCHANGED <<db, hist, budget, txs>>
    /\ UNCHANGED ops

\* await db.insert(customers).values({ stripeCustomerId, userId, email })
CheckoutInsert(r) ==
    /\ At(r, {"checkout"}, "c_ins")
    /\ customers' = [customers EXCEPT ![reqs[r].customer] = reqs[r].user]
    /\ Continue(r, [reqs[r] EXCEPT !.pc = "c_session"])
    /\ UNCHANGED <<generations, userCredits, subscriptions, hist, budget, txs>>
    /\ UNCHANGED ops

\* await createCheckoutSession(stripeCustomerId, priceId, ...), res.json({ url }).
\* The slot keeps the customer the session was created for.
CheckoutSession(r) ==
    /\ At(r, {"checkout"}, "c_session")
    /\ Continue(r, [Idle EXCEPT !.kind = "checkout", !.code = 200,
                                !.customer = reqs[r].customer])
    /\ UNCHANGED <<db, hist, budget, txs>>
    /\ UNCHANGED ops

\* ----------------------------------------------------------------- the clock
\* A new calendar month starts: no generation row is of this month any more.
NewMonth ==
    /\ budget.tick > 0
    /\ budget' = [budget EXCEPT !.tick = @ - 1]
    /\ generations' = [u \in Users |-> [old |-> generations[u].old + generations[u].cur,
                                        cur |-> 0]]
    /\ UNCHANGED <<userCredits, customers, subscriptions, reqs, hist, txs>>
    /\ UNCHANGED ops

\* ------------------------------------- storage.createGenerationIfAllowed
Txs == 1..MaxCalls

NoTx == [pc |-> "idle", user |-> None, isUnlimited |-> FALSE, max |-> 0,
         tick |-> 0, inserted |-> FALSE, result |-> None]

\* userId.split(''): the char codes of a user id.
CharCodes(u) ==
    CASE u = "Aa" -> <<65, 97>>
      [] u = "BB" -> <<66, 66>>
      [] OTHER    -> <<67>>

\* ((hash << 5) - hash) + char.charCodeAt(0); `<<` wraps at 32 bits, which the
\* hashes of ids this short do not reach.
HashStep(hash, char) == ((hash * 32) - hash) + char

RECURSIVE Reduce(_, _)
Reduce(codes, hash) ==
    IF codes = <<>> THEN hash ELSE Reduce(Tail(codes), HashStep(hash, Head(codes)))

\* Math.abs(userId.split('').reduce(..., 0)): the advisory lock key.
userIdHash(u) == LET h == Reduce(CharCodes(u), 0) IN IF h < 0 THEN -h ELSE h

\* A lock that outlives a transaction ended by a failing statement.
HoldsLockAfterFailure(t) ==
    txs[t].pc \in {"count", "insert", "commit"} \/ txs[t].result = "error"

\* Transactions holding the advisory lock of their key: from the lock statement to
\* the end of the transaction.
HoldsLock(t) == txs[t].pc \in {"count", "insert", "commit"}

\* The call: db.transaction(...) begins and goes to pg_advisory_xact_lock.
createGenerationIfAllowed(t, u, isUnlimited, maxGenerations) ==
    /\ txs[t].pc = "idle"
    /\ budget.req > 0
    /\ budget' = [budget EXCEPT !.req = @ - 1]
    /\ txs' = [txs EXCEPT ![t] = [NoTx EXCEPT !.pc = "lock", !.user = u,
                                              !.isUnlimited = isUnlimited,
                                              !.max = maxGenerations,
                                              !.tick = budget.tick]]
    /\ UNCHANGED <<db, hist, reqs>>
    /\ UNCHANGED ops

\* SELECT pg_advisory_xact_lock(userIdHash): returns once no other transaction
\* holds the lock of this key.
TxLock(t) ==
    /\ txs[t].pc = "lock"
    /\ \A o \in Txs \ {t} :
          HoldsLock(o) => userIdHash(txs[o].user) # userIdHash(txs[t].user)
    /\ txs' = [txs EXCEPT ![t].pc = "count"]
    /\ UNCHANGED <<db, hist, reqs, budget>>
    /\ UNCHANGED ops

\* A count of this month's rows whatever the maximum.
CurrentCountThisMonth(u, maxGenerations) == countUserGenerationsThisMonth(u)

\* currentCount: the user's rows for maxGenerations === 1, else the user's rows
\* created since the start of this month.
CurrentCount(u, maxGenerations) ==
    IF maxGenerations = 1 THEN TotalGenerations(u) ELSE countUserGenerationsThisMonth(u)

\* The check with > in place of >=: one generation past the maximum gets through.
QuotaExceededPastMax(isUnlimited, currentCount, maxGenerations) ==
    ~isUnlimited /\ currentCount > maxGenerations

\* if (!isUnlimited && currentCount >= maxGenerations)
QuotaExceeded(isUnlimited, currentCount, maxGenerations) ==
    ~isUnlimited /\ currentCount >= maxGenerations

\* The count and the check on it: { success: false, error: "No generations
\* remaining" } is returned, or the transaction goes on to the insert.
TxCount(t) ==
    /\ txs[t].pc = "count"
    /\ LET q == txs[t]
       IN  IF QuotaExceeded(q.isUnlimited, CurrentCount(q.user, q.max), q.max)
           THEN txs' = [txs EXCEPT ![t].pc = "commit", ![t].result = "quota"]
           ELSE txs' = [txs EXCEPT ![t].pc = "insert"]
    /\ UNCHANGED <<db, hist, reqs, budget>>
    /\ UNCHANGED ops

\* tx.insert(generations).values(generation).returning(); a failing statement
\* throws, the transaction rolls back and releases the lock. The record of an
\* ended call keeps its user and what it returned until the next call.
TxInsert(t, fails) ==
    /\ txs[t].pc = "insert"
    /\ IF fails
       THEN txs' = [txs EXCEPT ![t] = [NoTx EXCEPT !.result = "error",
                                                   !.user = txs[t].user]]
       ELSE txs' = [txs EXCEPT ![t].pc = "commit", ![t].inserted = TRUE,
                               ![t].result = "created"]
    /\ UNCHANGED <<db, hist, reqs, budget>>
    /\ UNCHANGED ops

\* The callback has returned: COMMIT. The inserted row (created_at defaults to
\* now(), the start of the transaction) becomes visible and the lock is released.
TxCommit(t) ==
    /\ txs[t].pc = "commit"
    /\ LET q == txs[t]
       IN  generations' =
             IF ~q.inserted THEN generations
             ELSE IF q.tick = budget.tick
                  THEN [generations EXCEPT ![q.user].cur = @ + 1]
                  ELSE [generations EXCEPT ![q.user].old = @ + 1]
    /\ txs' = [txs EXCEPT ![t] = [NoTx EXCEPT !.result = txs[t].result,
                                              !.user = txs[t].user]]
    /\ UNCHANGED <<userCredits, customers, subscriptions, hist, reqs, budget>>
    /\ UNCHANGED ops

\* ------------------------------------------------------ runStripeMigrations
\* File names are the sequences of their char codes.
DOT_SQL == <<46, 115, 113, 108>>
UNDERSCORE == 95
Digits == 48..57

\* "00_a.sql", "01_b.sql", "02_c.sql", and a file that is not a migration.
File_00_a == <<48, 48, 95, 97>> \o DOT_SQL
File_01_b == <<48, 49, 95, 98>> \o DOT_SQL
File_02_c == <<48, 50, 95, 99>> \o DOT_SQL
File_notes == <<110, 46, 109, 100>>

\* The contents dist/migrations may have.
Directories ==
    {{File_00_a, File_01_b}, {File_00_a, File_01_b, File_02_c},
     {File_00_a, File_01_b, File_notes}}

\* f.endsWith('.sql')
endsWithSql(f) ==
    /\ Len(f) >= Len(DOT_SQL)
    /\ SubSeq(f, Len(f) - Len(DOT_SQL) + 1, Len(f)) = DOT_SQL

\* a < b as Array.prototype.sort() compares two strings: by UTF-16 code units.
RECURSIVE Before(_, _)
Before(a, b) ==
    IF b = <<>> THEN FALSE
    ELSE IF a = <<>> THEN TRUE
    ELSE IF Head(a) # Head(b) THEN Head(a) < Head(b)
    ELSE Before(Tail(a), Tail(b))

\* readdirSync(migrationsDir).filter(f => f.endsWith('.sql')).sort()
RECURSIVE sort(_)
sort(fs) ==
    IF fs = {} THEN <<>>
    ELSE LET first == CHOOSE f \in fs : \A g \in fs \ {f} : Before(f, g)
         IN  <<first>> \o sort(fs \ {first})

MigrationFiles(dir) == sort({f \in dir : endsWithSql(f)})

\* The leading digits of a file name: the \d+ of /^\d+_(.+)\.sql$/.
RECURSIVE LeadingDigits(_)
LeadingDigits(f) ==
    IF f # <<>> /\ Head(f) \in Digits
    THEN <<Head(f)>> \o LeadingDigits(Tail(f))
    ELSE <<>>

\* file.match(/^\d+_(.+)\.sql$/): digits, an underscore, a name of at least one
\* character, ".sql".
Matches(f) ==
    LET d == Len(LeadingDigits(f))
    IN  /\ d >= 1
        /\ endsWithSql(f)
        /\ Len(f) >= d + 2 + Len(DOT_SQL)
        /\ f[d + 1] = UNDERSCORE

\* match[1]
migrationName(f) ==
    SubSeq(f, Len(LeadingDigits(f)) + 2, Len(f) - Len(DOT_SQL))

\* parseInt(file.split('_')[0])
RECURSIVE parseInt(_, _)
parseInt(digits, acc) ==
    IF digits = <<>> THEN acc
    ELSE parseInt(Tail(digits), acc * 10 + (Head(digits) - 48))

migrationId(f) == parseInt(LeadingDigits(f), 0)

NoRun == [pc |-> "idle", caller |-> None, files |-> <<>>, executed |-> {},
          index |-> 0, call |-> 0, result |-> None]

\* runStripeMigrations(schema) up to its loop: the sorted .sql files, CREATE TABLE
\* IF NOT EXISTS <schema>.migrations, and the names already recorded. A failing
\* query throws.
Invoke(caller, fails) ==
    IF fails
    THEN [runner EXCEPT !.pc = "done", !.caller = caller, !.call = @ + 1,
                        !.result = "threw", !.files = <<>>, !.executed = {},
                        !.index = 0]
    ELSE [runner EXCEPT !.pc = "loop", !.caller = caller, !.call = @ + 1,
                        !.result = None,
                        !.files = MigrationFiles(migrationsDir),
                        !.executed = {row.name : row \in migrations},
                        !.index = 1]

\* A call of runStripeMigrations from outside the start-up.
RunnerInvoke(fails) ==
    /\ runner.pc = "idle"
    /\ runner.call < MaxStarts
    /\ server.pc = "idle" /\ handler.pc = "idle"
    /\ runner' = Invoke(None, fails)
    /\ UNCHANGED <<endpoints, webhookState, server, handler, migrationsDir,
                   migrations, ran>>
    /\ UNCHANGED app

CurrentFile == runner.files[runner.index]

\* A file the loop passes over: its name does not match, or its migration name
\* is among those recorded when the call began.
RunnerSkip ==
    /\ runner.pc = "loop"
    /\ runner.index <= Len(runner.files)
    /\ \/ ~Matches(CurrentFile)
       \/ migrationName(CurrentFile) \in runner.executed
    /\ runner' = [runner EXCEPT !.index = @ + 1]
    /\ UNCHANGED <<endpoints, webhookState, server, handler, migrationsDir,
                   migrations, ran>>
    /\ UNCHANGED app

\* await pool.query(sql): the migration's SQL runs, or fails and the call throws.
RunnerQuery(fails) ==
    /\ runner.pc = "loop"
    /\ runner.index <= Len(runner.files)
    /\ Matches(CurrentFile)
    /\ migrationName(CurrentFile) \notin runner.executed
    /\ IF fails
       THEN /\ runner' = [runner EXCEPT !.pc = "done", !.result = "threw"]
            /\ UNCHANGED ran
       ELSE /\ runner' = [runner EXCEPT !.pc = "record"]
            /\ ran' = Append(ran, [file |-> CurrentFile, call |-> runner.call])
    /\ UNCHANGED <<endpoints, webhookState, server, handler, migrationsDir,
                   migrations>>
    /\ UNCHANGED app

\* INSERT INTO <schema>.migrations (id, name, hash, executed_at): id is the primary
\* key. A failing insert throws out of the call.
RunnerRecord(fails) ==
    /\ runner.pc = "record"
    /\ IF fails \/ \E row \in migrations : row.id = migrationId(CurrentFile)
       THEN /\ runner' = [runner EXCEPT !.pc = "done", !.result = "threw"]
            /\ UNCHANGED migrations
       ELSE /\ runner' = [runner EXCEPT !.pc = "loop", !.index = @ + 1]
            /\ migrations' = migrations \cup
                                {[id |-> migrationId(CurrentFile),
                                  name |-> migrationName(CurrentFile)]}
    /\ UNCHANGED <<endpoints, webhookState, server, handler, migrationsDir, ran>>
    /\ UNCHANGED app

\* After the loop: the ALTER ... OWNER TO and GRANT statements, in one query.
RunnerOwnership(fails) ==
    /\ runner.pc = "loop"
    /\ runner.index > Len(runner.files)
    /\ runner' = [runner EXCEPT !.pc = "done",
                                !.result = IF fails THEN "threw" ELSE "returned"]
    /\ UNCHANGED <<endpoints, webhookState, server, handler, migrationsDir,
                   migrations, ran>>
    /\ UNCHANGED app

\* ------------------------------------------------- Stripe webhook endpoints
EndpointIds == {"we_1", "we_2", "we_3"}

\* webhookUrl of StripeSyncServer.start() (`${publicUrl}:${port}${webhookPath}`),
\* of StripeSyncHandler.start() (`${publicUrl}${webhookPath}`), and the URL of an
\* endpoint some other deployment registered.
SERVER_WEBHOOK_URL == "publicUrl:port/webhookPath"
HANDLER_WEBHOOK_URL == "publicUrl/webhookPath"
OTHER_WEBHOOK_URL == "other"

NoEndpoint == [state |-> "unused", url |-> None, by |-> None]

Registered == {e \in EndpointIds : endpoints[e].state = "registered"}
RegisteredAt(url) == {e \in Registered : endpoints[e].url = url}

\* The id stripe.webhookEndpoints.create gives the endpoint it creates: one no
\* endpoint has had.
FreshEndpointIds == {e \in EndpointIds : endpoints[e].state = "unused"}

\* The ways stripe.webhookEndpoints.create(...) ends: an endpoint is created; the
\* account holds the maximum already; any other error.
CreateOutcomes == {"created", "maximum", "error"}

\* createWebhook(stripeApiKey, url), called by `by`, creating endpoint e.
createWebhook(e, url, by) ==
    [endpoints EXCEPT ![e] = [state |-> "registered", url |-> url, by |-> by]]

CanCreate(outcome) ==
    CASE outcome = "created" -> Cardinality(Registered) < MaxEndpoints
      [] outcome = "maximum" -> Cardinality(Registered) >= MaxEndpoints
      [] OTHER               -> TRUE

\* deleteWebhook(stripeApiKey, webhookId): stripe.webhookEndpoints.del inside a
\* try whose catch only logs; `works` is whether Stripe carried the deletion out.
deleteWebhook(e, works) ==
    IF works /\ endpoints[e].state = "registered"
    THEN [endpoints EXCEPT ![e].state = "deleted"]
    ELSE endpoints

\* ------------------------------------------ runStripeMigrations, returning
\* The call ends and its caller goes on: start() of either class reports
\* 'degraded' when the call threw.
NoServer == [pc |-> "idle", webhookId |-> None, cached |-> None, created |-> None,
             listening |-> FALSE, status |-> None, starts |-> 0, stops |-> 0]
NoHandler == [pc |-> "idle", webhookId |-> None, webhook |-> None,
              stripeSync |-> FALSE, status |-> None, starts |-> 0, stops |-> 0]

RunnerReturn ==
    /\ runner.pc = "done"
    /\ runner' = [runner EXCEPT !.pc = "idle"]
    /\ server' = IF runner.caller # "server" THEN server
                 ELSE IF runner.result = "threw"
                      THEN [server EXCEPT !.pc = "idle", !.status = "degraded"]
                      ELSE [server EXCEPT !.pc = "listen"]
    /\ handler' = IF runner.caller # "handler" THEN handler
                  ELSE IF runner.result = "threw"
                       THEN [handler EXCEPT !.pc = "idle", !.status = "degraded"]
                       ELSE [handler EXCEPT !.pc = "create"]
    /\ UNCHANGED <<endpoints, webhookState, migrationsDir, migrations, ran>>
    /\ UNCHANGED app

\* ------------------------------------------------- StripeSyncServer.start()
NoRow == [row |-> FALSE, webhookEndpointId |-> None]

\* start(): options.publicUrl is set, so no tunnel is opened.
ServerStart ==
    /\ server.pc = "idle"
    /\ server.starts < MaxStarts
    /\ server' = [server EXCEPT !.pc = "select", !.starts = @ + 1, !.status = None,
                                !.cached = None, !.created = None]
    /\ UNCHANGED <<endpoints, webhookState, handler, migrationsDir, migrations,
                   ran, runner>>
    /\ UNCHANGED app

\* getOrCreateWebhook, 1: select from webhook_state where public_url = publicUrl.
ServerCacheSelect ==
    /\ server.pc = "select"
    /\ server' = IF webhookState.row
                 THEN [server EXCEPT !.pc = "verify",
                                     !.cached = webhookState.webhookEndpointId]
                 ELSE [server EXCEPT !.pc = "list"]
    /\ UNCHANGED <<endpoints, webhookState, handler, migrationsDir, migrations,
                   ran, runner>>
    /\ UNCHANGED app

\* getOrCreateWebhook returns `e`: this.webhookId = webhook.id.
ServerHolds(e) == [server EXCEPT !.pc = "migrate", !.webhookId = e]

\* The cached row: getWebhook answers null when the endpoint is gone and when the
\* request fails (`answers` FALSE). An endpoint with the webhook URL is reused
\* after lastVerified is updated; when that update throws, the catch deletes the
\* cached row, and a failing delete throws out of getOrCreateWebhook. Otherwise
\* the row is left and the search goes on to Stripe's list.
ServerVerify(answers, updateFails, deleteFails) ==
    /\ server.pc = "verify"
    /\ LET e == server.cached
           stripeWebhook == answers /\ endpoints[e].state = "registered"
       IN  IF stripeWebhook /\ endpoints[e].url = SERVER_WEBHOOK_URL
           THEN IF ~updateFails
                THEN /\ server' = ServerHolds(e)
                     /\ UNCHANGED webhookState
                ELSE IF deleteFails
                THEN /\ server' = [server EXCEPT !.pc = "failed"]
                     /\ UNCHANGED webhookState
                ELSE /\ server' = [server EXCEPT !.pc = "list"]
                     /\ webhookState' = NoRow
           ELSE /\ server' = [server EXCEPT !.pc = "list"]
                /\ UNCHANGED webhookState
    /\ UNCHANGED <<endpoints, handler, migrationsDir, migrations, ran, runner>>
    /\ UNCHANGED app

\* getOrCreateWebhook, 2: listWebhooks and the first endpoint with the webhook
\* URL, cached by an upsert on public_url and reused. The try around the list
\* and the upsert has a catch that only logs: after a failure of either, the
\* method goes on and creates.
ServerList(listFails, insertFails) ==
    /\ server.pc = "list"
    /\ IF listFails \/ RegisteredAt(SERVER_WEBHOOK_URL) = {}
       THEN /\ server' = [server EXCEPT !.pc = "create"]
            /\ UNCHANGED webhookState
       ELSE \E matchingWebhook \in RegisteredAt(SERVER_WEBHOOK_URL) :
               IF insertFails
               THEN /\ server' = [server EXCEPT !.pc = "create"]
                    /\ UNCHANGED webhookState
               ELSE /\ server' = ServerHolds(matchingWebhook)
                    /\ webhookState' = [row |-> TRUE,
                                        webhookEndpointId |-> matchingWebhook]
    /\ UNCHANGED <<endpoints, handler, migrationsDir, migrations, ran, runner>>
    /\ UNCHANGED app

\* getOrCreateWebhook, 3: createWebhook. start() answers 'degraded' to an error
\* that says the maximum is reached and rethrows any other into its outer catch.
ServerCreate(outcome) ==
    /\ server.pc = "create"
    /\ CanCreate(outcome)
    /\ CASE outcome = "created" ->
              \E e \in FreshEndpointIds :
                 /\ endpoints' = createWebhook(e, SERVER_WEBHOOK_URL, "server")
                 /\ server' = [server EXCEPT !.pc = "cache", !.created = e]
         [] outcome = "maximum" ->
              /\ server' = [server EXCEPT !.pc = "idle", !.status = "degraded"]
              /\ UNCHANGED endpoints
         [] OTHER ->
              /\ server' = [server EXCEPT !.pc = "failed"]
              /\ UNCHANGED endpoints
    /\ UNCHANGED <<webhookState, handler, migrationsDir, migrations, ran, runner>>
    /\ UNCHANGED app

\* The upsert that caches the endpoint just created; when it throws, start()'s
\* outer catch takes over.
ServerCacheInsert(fails) ==
    /\ server.pc = "cache"
    /\ IF fails
       THEN /\ server' = [server EXCEPT !.pc = "failed"]
            /\ UNCHANGED webhookState
       ELSE /\ server' = ServerHolds(server.created)
            /\ webhookState' = [row |-> TRUE, webhookEndpointId |-> server.created]
    /\ UNCHANGED <<endpoints, handler, migrationsDir, migrations, ran, runner>>
    /\ UNCHANGED app

\* await runStripeMigrations(this.options.schema)
ServerMigrate(fails) ==
    /\ server.pc = "migrate"
    /\ runner.pc = "idle"
    /\ runner' = Invoke("server", fails)
    /\ server' = [server EXCEPT !.pc = "migrating"]
    /\ UNCHANGED <<endpoints, webhookState, handler, migrationsDir, migrations, ran>>
    /\ UNCHANGED app

\* new StripeSync(...), createExpressServer() and app.listen: 'ready'. A throw
\* lands in the outer catch.
ServerListen(fails) ==
    /\ server.pc = "listen"
    /\ server' = IF fails
                 THEN [server EXCEPT !.pc = "failed"]
                 ELSE [server EXCEPT !.pc = "idle", !.listening = TRUE,
                                     !.status = "ready"]
    /\ UNCHANGED <<endpoints, webhookState, handler, migrationsDir, migrations,
                   ran, runner>>
    /\ UNCHANGED app

\* StripeSyncServer.stop(): the tunnel and the HTTP server are closed; the
\* webhook endpoint is left registered.
ServerStopped == [server EXCEPT !.listening = FALSE]

\* The outer catch of start(): await this.stop(), then 'degraded'.
ServerFailed ==
    /\ server.pc = "failed"
    /\ server' = [ServerStopped EXCEPT !.pc = "idle", !.status = "degraded"]
    /\ UNCHANGED <<endpoints, webhookState, handler, migrationsDir, migrations,
                   ran, runner>>
    /\ UNCHANGED app

ServerStop ==
    /\ server.pc = "idle"
    /\ server.stops < MaxStops
    /\ server' = [ServerStopped EXCEPT !.stops = @ + 1]
    /\ UNCHANGED <<endpoints, webhookState, handler, migrationsDir, migrations,
                   ran, runner>>
    /\ UNCHANGED app

\* ------------------------------------------------ StripeSyncHandler.start()
\* The record keeps, after start() has returned, the status it reported and the
\* endpoint its call created (the local `webhook`).
HandlerStart ==
    /\ handler.pc = "idle"
    /\ handler.starts < MaxStarts
    /\ handler' = [handler EXCEPT !.pc = "migrate", !.starts = @ + 1,
                                  !.status = None, !.webhook = None]
    /\ UNCHANGED <<endpoints, webhookState, server, migrationsDir, migrations,
                   ran, runner>>
    /\ UNCHANGED app

\* await runStripeMigrations(this.options.schema)
HandlerMigrate(fails) ==
    /\ handler.pc = "migrate"
    /\ runner.pc = "idle"
    /\ runner' = Invoke("handler", fails)
    /\ handler' = [handler EXCEPT !.pc = "migrating"]
    /\ UNCHANGED <<endpoints, webhookState, server, migrationsDir, migrations, ran>>
    /\ UNCHANGED app

\* webhook = await createWebhook(...); this.webhookId = webhook.id. An error that
\* says the maximum is reached is answered 'degraded'; any other is rethrown into
\* the outer catch.
HandlerCreate(outcome) ==
    /\ handler.pc = "create"
    /\ CanCreate(outcome)
    /\ CASE outcome = "created" ->
              \E e \in FreshEndpointIds :
                 /\ endpoints' = createWebhook(e, HANDLER_WEBHOOK_URL, "handler")
                 /\ handler' = [handler EXCEPT !.pc = "sync", !.webhook = e,
                                               !.webhookId = e]
         [] outcome = "maximum" ->
              /\ handler' = [handler EXCEPT !.pc = "idle", !.status = "degraded"]
              /\ UNCHANGED endpoints
         [] OTHER ->
              /\ handler' = [handler EXCEPT !.pc = "failed"]
              /\ UNCHANGED endpoints
    /\ UNCHANGED <<webhookState, server, migrationsDir, migrations, ran, runner>>
    /\ UNCHANGED app

\* this.stripeSync = new StripeSync(...): 'ready'. A throw lands in the outer
\* catch.
HandlerSync(fails) ==
    /\ handler.pc = "sync"
    /\ handler' = IF fails
                  THEN [handler EXCEPT !.pc = "failed"]
                  ELSE [handler EXCEPT !.pc = "idle", !.stripeSync = TRUE,
                                       !.status = "ready"]
    /\ UNCHANGED <<endpoints, webhookState, server, migrationsDir, migrations,
                   ran, runner>>
    /\ UNCHANGED app

\* StripeSyncHandler.stop(): if (this.webhookId) deleteWebhook(..., this.webhookId).
\* this.webhookId keeps its value.
HandlerStopped(works) ==
    IF handler.webhookId # None
    THEN deleteWebhook(handler.webhookId, works)
    ELSE endpoints

\* The outer catch of start(): await this.stop(), then 'degraded'.
HandlerFailed(works) ==
    /\ handler.pc = "failed"
    /\ endpoints' = HandlerStopped(works)
    /\ handler' = [handler EXCEPT !.pc = "idle", !.status = "degraded"]
    /\ UNCHANGED <<webhookState, server, migrationsDir, migrations, ran, runner>>
    /\ UNCHANGED app

\* stop() called by the process: after a 'degraded' start in development, and on
\* shutdown.
HandlerStop(works) ==
    /\ handler.pc = "idle"
    /\ handler.stops < MaxStops
    /\ endpoints' = HandlerStopped(works)
    /\ handler' = [handler EXCEPT !.stops = @ + 1]
    /\ UNCHANGED <<webhookState, server, migrationsDir, migrations, ran, runner>>
    /\ UNCHANGED app

\* The start-up state of the application's specifications: nothing registered,
\* nothing migrated, no start() called.
InitOps ==
    /\ endpoints = [e \in EndpointIds |-> NoEndpoint]
    /\ webhookState = NoRow
    /\ server = NoServer
    /\ handler = NoHandler
    /\ migrationsDir = {File_00_a, File_01_b}
    /\ migrations = {}
    /\ ran = <<>>
    /\ runner = NoRun

\* ------------------------------------------------------------ initial states
\* The database at the start of a run: empty; or user Aa after buying one credit
\* pack and generating with all but the last credit; or user Aa subscribed to the
\* Pro plan, one generation short of this month's limit.
Scenarios == {"fresh", "credits", "subscriber"}

InitDb(sc) ==
    /\ generations = [u \in Users |->
         [old |-> 0,
          cur |-> IF u # "Aa" THEN 0
                  ELSE CASE sc = "credits" -> CREDITS_10 - 1
                         [] sc = "subscriber" -> PRO_LIMIT - 1
                         [] OTHER -> 0]]
    /\ userCredits = [u \in Users |->
         IF u = "Aa" /\ sc # "fresh"
         THEN [row |-> TRUE, credits |-> IF sc = "credits" THEN 1 ELSE 0]
         ELSE NoCredits]
    /\ customers = [c \in CustomerIds |->
         IF c = "cus_1" /\ sc # "fresh" THEN "Aa" ELSE None]
    /\ subscriptions = [s \in SubIds |->
         IF sc = "subscriber"
         THEN [row |-> TRUE, customer |-> "cus_1", status |-> "active",
               priceId |-> PRICE_PRO]
         ELSE NoSub]
    /\ granted = [u \in Users |-> IF u = "Aa" /\ sc = "credits" THEN CREDITS_10 ELSE 0]
    /\ applied = [e \in EventIds |-> IF e = "evt_pay" /\ sc = "credits" THEN 1 ELSE 0]
    /\ creditGens = [u \in Users |->
         IF u = "Aa" /\ sc = "credits" THEN CREDITS_10 - 1 ELSE 0]

Init ==
    /\ \E sc \in Scenarios : InitDb(sc)
    /\ reqs = [r \in Slots |-> Idle]
    /\ budget = [req |-> MaxRequests, tick |-> MaxMonthTicks]
    /\ txs = [t \in Txs |-> NoTx]
    /\ InitOps

\* One step of the server; Failures are the outcomes a database write may have
\* (TRUE: the statement throws).
Step(Failures) ==
    \/ \E r \in Slots, u \in Callers : StatusArrive(r, u)
    \/ \E r \in Slots, u \in Callers : GenerateArrive(r, u)
    \/ \E r \in Slots, e \in EventIds, sig \in Signatures : WebhookArrive(r, e, sig)
    \/ \E r \in Slots, c \in CustomerIds, p \in {PRICE_10_PACK, PRICE_PRO} :
          PaymentArrive(r, c, p)
    \/ \E r \in Slots :
          \/ StatusGenerations(r)
          \/ StatusMonthly(r)
          \/ StatusCreditsSelect(r)
          \/ StatusCreditsInsert(r)
          \/ \E valid \in BOOLEAN : StatusCustomer(r, valid)
          \/ \E valid \in BOOLEAN : StatusSubscription(r, valid)
          \/ \E fails \in Failures : GenerateCreate(r, fails)
          \/ \E fails \in Failures : GenerateDeduct(r, fails)
          \/ AddCreditsSelect(r)
          \/ AddCreditsInsert(r)
          \/ AddCreditsUpdate(r)
          \/ WebhookVerify(r)
          \/ WebhookCustomerUpsert(r)
          \/ WebhookSubscriptionCustomer(r)
          \/ WebhookSubscriptionUpsert(r)
          \/ WebhookSubscriptionDelete(r)
          \/ WebhookCheckoutCustomer(r)
          \/ PaymentCustomer(r)
    \/ NewMonth

Next == Step(BOOLEAN)

Spec == Init /\ [][Next]_vars

\* Runs in which requests come one after the other and no database write fails.
Sequential == Cardinality({r \in Slots : reqs[r].pc # "idle"}) <= 1

NextSeq == Step({FALSE}) /\ Sequential'

SpecSeq == Init /\ [][NextSeq]_vars

\* The generation writer under concurrent calls, with the (isUnlimited,
\* maxGenerations) a caller may pass: a free-tier, a two-credit, a Pro-plan or an
\* unlimited entitlement.
Entitlements ==
    {<<FALSE, FREE_LIMIT>>, <<FALSE, 2>>, <<FALSE, PRO_LIMIT>>, <<TRUE, UNLIMITED>>}

NextWriter ==
    \/ \E t \in Txs, u \in Users, a \in Entitlements :
          createGenerationIfAllowed(t, u, a[1], a[2])
    \/ \E t \in Txs :
          \/ TxLock(t)
          \/ TxCount(t)
          \/ \E fails \in BOOLEAN : TxInsert(t, fails)
          \/ TxCommit(t)
    \/ NewMonth

SpecWriter == Init /\ [][NextWriter]_vars

\* The writer with its scheduling: a transaction whose next statement can run does
\* run (the database serves every session, and grants a released advisory lock to
\* a waiter). Nothing forces a further call to arrive.
FairWriter ==
    \A t \in Txs : /\ WF_vars(TxLock(t))
                   /\ WF_vars(TxCount(t))
                   /\ WF_vars(\E fails \in BOOLEAN : TxInsert(t, fails))
                   /\ WF_vars(TxCommit(t))

SpecWriterLive == SpecWriter /\ FairWriter

\* Checkout requests of the signed-in users, concurrent with each other.
NextCheckout ==
    \/ \E r \in Slots, u \in Callers, p \in CheckoutPrices : CheckoutArrive(r, u, p)
    \/ \E r \in Slots :
          \/ \E hasEmail \in BOOLEAN : CheckoutUser(r, hasEmail)
          \/ CheckoutSelect(r)
          \/ CheckoutCreateCustomer(r)
          \/ CheckoutInsert(r)
          \/ CheckoutSession(r)

SpecCheckout == Init /\ [][NextCheckout]_vars

\* Every handler of the server, the checkout included, concurrent with the others.
NextAll == Next \/ NextCheckout

SpecAll == Init /\ [][NextAll]_vars

\* The entitlement calculation and the generate gate over the databases a user can
\* have: generation counts below, at and above the limits, with or without a
\* credit row and credits, with or without a customer row, and a subscription row
\* in any status on either plan. The user's requests come one after the other.
SubscriptionStatuses ==
    {"active", "trialing", "past_due", "unpaid", "canceled", "incomplete"}

InitCalc ==
    /\ \E old \in {0, 2}, cur \in {0, 1, PRO_LIMIT - 1, PRO_LIMIT, PRO_LIMIT + 1} :
          generations = [u \in Users |-> IF u = "Aa" THEN [old |-> old, cur |-> cur]
                                                     ELSE [old |-> 0, cur |-> 0]]
    /\ \E row \in {NoCredits, [row |-> TRUE, credits |-> 0], [row |-> TRUE, credits |-> 3]} :
          /\ userCredits = [u \in Users |-> IF u = "Aa" THEN row ELSE NoCredits]
          /\ granted = [u \in Users |-> IF u = "Aa" THEN row.credits ELSE 0]
    /\ \E mapped \in BOOLEAN :
          /\ customers = [c \in CustomerIds |->
                            IF mapped /\ c = "cus_1" THEN "Aa" ELSE None]
          /\ \E sub \in {NoSub} \cup
                         {[row |-> TRUE, customer |-> "cus_1", status |-> st, priceId |-> p] :
                            st \in SubscriptionStatuses, p \in LimitedPrices} :
                /\ sub.row => mapped
                /\ subscriptions = [s \in SubIds |-> sub]
    /\ applied = [e \in EventIds |-> 0]
    /\ creditGens = [u \in Users |-> 0]
    /\ reqs = [r \in Slots |-> Idle]
    /\ budget = [req |-> MaxRequests, tick |-> MaxMonthTicks]
    /\ txs = [t \in Txs |-> NoTx]
    /\ InitOps

NextCalc ==
    /\ \/ \E r \in Slots : StatusArrive(r, "Aa")
       \/ \E r \in Slots : GenerateArrive(r, "Aa")
       \/ \E r \in Slots :
             \/ StatusGenerations(r)
             \/ StatusMonthly(r)
             \/ StatusCreditsSelect(r)
             \/ StatusCreditsInsert(r)
             \/ \E valid \in BOOLEAN : StatusCustomer(r, valid)
             \/ \E valid \in BOOLEAN : StatusSubscription(r, valid)
             \/ GenerateCreate(r, FALSE)
             \/ GenerateDeduct(r, FALSE)
       \/ NewMonth
    /\ Sequential'

SpecCalc == InitCalc /\ [][NextCalc]_vars

\* The same requests when the query of getActiveSubscription may throw.
NextLookup ==
    \/ NextCalc
    \/ \E r \in Slots, valid \in BOOLEAN : StatusSubscriptionFails(r, valid)

SpecLookup == InitCalc /\ [][NextLookup]_vars

\* ----------------------------------------------------- Stripe Sync start-up
\* The deployment a start-up can meet: the migrations directory of the installed
\* package; a migrations table that is empty or holds the first migration; a
\* Stripe account with no endpoint, or with endpoint we_1 registered at the
\* server's webhook URL or at another URL, or deleted since; and a webhook_state
\* table that is empty or holds a row for we_1.
InitSync ==
    /\ InitDb("fresh")
    /\ reqs = [r \in Slots |-> Idle]
    /\ budget = [req |-> MaxRequests, tick |-> MaxMonthTicks]
    /\ txs = [t \in Txs |-> NoTx]
    /\ migrationsDir \in Directories
    /\ migrations \in {{}, {[id |-> migrationId(File_00_a),
                             name |-> migrationName(File_00_a)]}}
    /\ ran = <<>>
    /\ runner = NoRun
    /\ server = NoServer
    /\ handler = NoHandler
    /\ \E first \in {NoEndpoint,
                     [state |-> "registered", url |-> SERVER_WEBHOOK_URL, by |-> None],
                     [state |-> "registered", url |-> OTHER_WEBHOOK_URL, by |-> None],
                     [state |-> "deleted", url |-> SERVER_WEBHOOK_URL, by |-> None]} :
          /\ endpoints = [e \in EndpointIds |-> IF e = "we_1" THEN first ELSE NoEndpoint]
          /\ webhookState \in
                {NoRow} \cup
                (IF first = NoEndpoint THEN {}
                 ELSE {[row |-> TRUE, webhookEndpointId |-> "we_1"]})

\* The steps of a call of runStripeMigrations once it is under way.
RunnerSteps ==
    \/ RunnerSkip
    \/ \E fails \in BOOLEAN : RunnerQuery(fails)
    \/ \E fails \in BOOLEAN : RunnerRecord(fails)
    \/ \E fails \in BOOLEAN : RunnerOwnership(fails)
    \/ RunnerReturn

\* runStripeMigrations called again and again.
NextMigrations ==
    \/ \E fails \in BOOLEAN : RunnerInvoke(fails)
    \/ RunnerSteps

SpecMigrations == InitSync /\ [][NextMigrations]_vars

\* start() and stop() of one StripeSyncServer, called one after the other.
NextServer ==
    \/ ServerStart
    \/ ServerCacheSelect
    \/ \E answers, updateFails, deleteFails \in BOOLEAN :
          ServerVerify(answers, updateFails, deleteFails)
    \/ \E listFails, insertFails \in BOOLEAN : ServerList(listFails, insertFails)
    \/ \E outcome \in CreateOutcomes : ServerCreate(outcome)
    \/ \E fails \in BOOLEAN : ServerCacheInsert(fails)
    \/ \E fails \in BOOLEAN : ServerMigrate(fails)
    \/ \E fails \in BOOLEAN : ServerListen(fails)
    \/ ServerFailed
    \/ ServerStop
    \/ RunnerSteps

SpecServer == InitSync /\ [][NextServer]_vars

\* start() and stop() of one StripeSyncHandler, called one after the other.
NextHandler ==
    \/ HandlerStart
    \/ \E fails \in BOOLEAN : HandlerMigrate(fails)
    \/ \E outcome \in CreateOutcomes : HandlerCreate(outcome)
    \/ \E fails \in BOOLEAN : HandlerSync(fails)
    \/ \E works \in BOOLEAN : HandlerFailed(works)
    \/ \E works \in BOOLEAN : HandlerStop(works)
    \/ RunnerSteps

SpecHandler == InitSync /\ [][NextHandler]_vars

\* ================================================================== claims
\* Users no customer row maps to: they never held a subscription or a credit.
FreeTier(u) == CustomersOf(u) = {} /\ granted[u] = 0

\* Users none of whose customers has a subscription row (in any status).
NoSubscription(u) ==
    \A s \in SubIds : subscriptions[s].row => subscriptions[s].customer \notin CustomersOf(u)

\* Users holding an entitling subscription with a finite monthly limit.
FiniteSubscriber(u) ==
    /\ getCustomerByUserId(u) # None
    /\ getActiveSubscription(getCustomerByUserId(u)).row
    /\ ~IsUnlimited(MonthlyLimit(getActiveSubscription(getCustomerByUserId(u))))

LimitOf(u) == MonthlyLimit(getActiveSubscription(getCustomerByUserId(u)))

\* Slot r's status handler is at its last read: this step answers.
Answering(r) ==
    /\ reqs[r].kind \in {"status", "gen"}
    /\ \/ reqs[r].pc = "s_sub"
       \/ reqs[r].pc = "s_cust" /\ getCustomerByUserId(reqs[r].user) = None

\* The status slot r's handler answers with in this step.
StatusOf(r) ==
    StatusResult(reqs[r], IF reqs[r].pc = "s_sub"
                          THEN getActiveSubscription(reqs[r].customer)
                          ELSE NoSub)

\* C1: concurrent generation attempts of a free-tier user with no prior generation
\* create exactly one Generation; the others fail with QuotaExceeded. Stated on
\* the records: such a user never has more than one Generation.
C1_OneFreeGeneration ==
    \A u \in Users : FreeTier(u) => TotalGenerations(u) <= 1

\* C2: a checkout-completion event delivered twice grants its credits once.
C2_GrantAppliedOnce ==
    \A e \in EventIds : applied[e] <= 1

\* C3: no CreditBalance is ever negative.
C3_CreditsNonNegative ==
    \A u \in Users : userCredits[u].credits >= 0

\* C4: without a subscription, once the K credits of a pack have been consumed by K
\* successful generations the balance is 0 and no further Generation is created.
PackConsumed(u) ==
    /\ NoSubscription(u)
    /\ granted[u] = CREDITS_10
    /\ creditGens[u] = CREDITS_10
    /\ \A r \in Slots : reqs[r].pc # "g_deduct"

C4_RoundTrip ==
    /\ [](\A u \in Users : PackConsumed(u) => userCredits[u].credits = 0)
    /\ [][\A u \in Users : PackConsumed(u) =>
             TotalGenerations(u)' = TotalGenerations(u)]_vars

\* C5: a Generation is created for a user holding an entitling subscription of
\* finite monthly limit N only while the month's count is below N.
C5_MonthlyQuotaHeld ==
    [][\A u \in Users :
         (FiniteSubscriber(u) /\ generations'[u].cur > generations[u].cur)
            => generations[u].cur < LimitOf(u)]_vars

\* C6: a generation attempt whose status has remainingGenerations <= 0 and is not
\* unlimited does not go on to create a Generation, and one whose status has
\* remaining > 0 or is unlimited is not answered 403.
C6_GateBlocksNonPositive ==
    [][\A r \in Slots :
         (reqs[r].kind = "gen" /\ Answering(r) /\ reqs'[r] # reqs[r])
            => IF StatusOf(r).remainingGenerations <= 0 /\ ~StatusOf(r).isUnlimited
               THEN reqs'[r].pc # "g_create"
               ELSE reqs'[r].code # 403]_vars

\* C7: a CreditBalance increases only in the step of a webhook handler whose
\* event passed signature verification.
C7_GrantsAreVerified ==
    [][\A u \in Users :
         userCredits'[u].credits > userCredits[u].credits
            => \E r \in Slots : /\ reqs[r].kind = "webhook"
                                /\ reqs[r].sig = "valid"
                                /\ reqs[r].pc = "a_upd"
                                /\ reqs[r].user = u
                                /\ reqs'[r].pc = "idle"]_vars

\* C8: a webhook call whose signature is missing or does not verify is answered
\* 400 by the step that checks it, which changes no table, and its handler never
\* gets past that check.
Unverified(r) == reqs[r].kind = "webhook" /\ reqs[r].sig \in {"missing", "bad"}

C8_UnverifiedRejected ==
    /\ [](\A r \in Slots : Unverified(r) => reqs[r].pc = "w_recv")
    /\ [][\A r \in Slots :
            (Unverified(r) /\ reqs'[r] # reqs[r])
               => /\ reqs'[r] = [Idle EXCEPT !.kind = "webhook", !.code = 400,
                                            !.event = reqs[r].event]
                  /\ UNCHANGED <<db, hist>>]_vars

C8_Witness ==
    \E r \in Slots : reqs[r].pc = "idle" /\ reqs[r].kind = "webhook" /\ reqs[r].code = 400

\* C9: outside the handler's own window between the two statements, the credits
\* deducted from a user equal the user's credit-sourced Generations.
C9_GenerationAndDeductAtomic ==
    \A u \in Users :
        (\A r \in Slots : ~(reqs[r].pc = "g_deduct" /\ reqs[r].user = u))
           => granted[u] - userCredits[u].credits = creditGens[u]

\* C10: when the count read under the lock is >= maxGenerations and the call is not
\* unlimited, the call returns "No generations remaining", inserts nothing, and
\* neither that step nor the end of its transaction changes a table.
OverQuota(t) ==
    /\ txs[t].pc = "count"
    /\ ~txs[t].isUnlimited
    /\ CurrentCount(txs[t].user, txs[t].max) >= txs[t].max

C10_QuotaExceededChangesNothing ==
    /\ [](\A t \in Txs : txs[t].result = "quota" => ~txs[t].inserted)
    /\ [][\A t \in Txs :
            /\ (OverQuota(t) /\ txs'[t] # txs[t])
                  => /\ txs'[t].result = "quota"
                     /\ txs'[t].pc = "commit"
                     /\ UNCHANGED <<db, hist>>
            /\ (txs[t].result = "quota" /\ txs'[t] # txs[t] /\ txs[t].pc = "commit")
                  => /\ txs'[t].result = "quota"
                     /\ UNCHANGED <<db, hist>>]_vars

C10_Witness ==
    \E t \in Txs : txs[t].pc = "idle" /\ txs[t].result = "quota"

\* C11: a verified completed one-time checkout for the credit pack whose customer
\* resolves to a user goes on to addCredits for that user; addCredits creates the
\* user's row with 0 credits when there is none, then adds exactly 10 to that
\* user's balance, leaves every other balance alone and answers 200.
PackCheckout(r) ==
    /\ reqs[r].kind = "webhook"
    /\ reqs[r].sig = "valid"
    /\ EventOf(reqs[r].event).type = "checkout.session.completed"
    /\ EventOf(reqs[r].event).mode = "payment"
    /\ EventOf(reqs[r].event).priceId = PRICE_10_PACK

Payer(r) == customers[EventOf(reqs[r].event).customer]

C11_GrantAddsPackAmount ==
    [][\A r \in Slots :
         (PackCheckout(r) /\ reqs'[r] # reqs[r]) =>
            /\ reqs[r].pc = "w_recv" => reqs'[r].pc = "w_payCust"
            /\ (reqs[r].pc = "w_payCust" /\ Payer(r) # None)
                  => reqs'[r].pc = "a_sel" /\ reqs'[r].user = Payer(r)
            /\ reqs[r].pc = "a_sel" => reqs'[r].pc \in {"a_ins", "a_upd"}
            /\ (reqs[r].pc = "a_ins" /\ ~userCredits[reqs[r].user].row)
                  => /\ reqs'[r].pc = "a_upd"
                     /\ userCredits' = [userCredits EXCEPT
                           ![reqs[r].user] = [row |-> TRUE, credits |-> 0]]
            /\ reqs[r].pc = "a_upd"
                  => /\ userCredits[reqs[r].user].row
                     /\ userCredits' = [userCredits EXCEPT
                           ![reqs[r].user].credits = @ + 10]
                     /\ reqs'[r].pc = "idle"
                     /\ reqs'[r].code = 200]_vars

\* The pack's event was acknowledged and a user who had no generation, no credit
\* and no purchase before holds exactly the pack's 10 credits.
C11_Witness ==
    \E r \in Slots :
        /\ reqs[r].pc = "idle" /\ reqs[r].event = "evt_pay" /\ reqs[r].code = 200
        /\ granted["Aa"] = 10
        /\ userCredits["Aa"] = [row |-> TRUE, credits |-> 10]
        /\ TotalGenerations("Aa") = 0

\* C12: a verified completed checkout for the credit pack whose customer id has no
\* customers row with a user is answered 200, and no step of its handler changes
\* a table.
C12_UnmappedCustomerAcknowledged ==
    [][\A r \in Slots :
         (PackCheckout(r) /\ reqs'[r] # reqs[r]) =>
            /\ reqs[r].pc \in {"w_recv", "w_payCust"} => UNCHANGED <<db, hist>>
            /\ (reqs[r].pc = "w_payCust" /\ Payer(r) = None)
                  => /\ reqs'[r].pc = "idle"
                     /\ reqs'[r].code = 200]_vars

\* The checkout of cus_2, a customer no event of the run maps to a user, was
\* acknowledged.
C12_Witness ==
    \E r \in Slots :
        /\ reqs[r].pc = "idle" /\ reqs[r].event = "evt_pay2" /\ reqs[r].code = 200
        /\ customers["cus_2"] = None
        /\ applied["evt_pay2"] = 0

\* C13 as stated: no step of the handler of a verified event other than a completed
\* one-time checkout for the credit pack changes any table.
Verified(r) == reqs[r].kind = "webhook" /\ reqs[r].sig = "valid"

CustomerEvent(r) ==
    EventOf(reqs[r].event).type \in {"customer.created", "customer.updated"}

SubscriptionEvent(r) ==
    EventOf(reqs[r].event).type \in {"customer.subscription.created",
                                     "customer.subscription.updated",
                                     "customer.subscription.deleted"}

Quiet == \A r \in Slots : reqs[r].pc = "idle"

MappingAndCheckoutDelivered ==
    /\ Quiet
    /\ budget.req = MaxRequests - 2
    /\ \A u \in Users : TotalGenerations(u) = 0
    /\ \A s \in SubIds : ~subscriptions[s].row
    /\ customers["cus_1"] = "Aa"
    /\ \E r \in Slots : reqs[r].event = "evt_pay" /\ reqs[r].code = 200

C14_OrderIndependent ==
    MappingAndCheckoutDelivered => userCredits["Aa"].credits = CREDITS_10

\* C15: no step of a status query changes the Generation records or the
\* CreditBalance rows, the existence of a user's row included.
C15_StatusReadOnly ==
    [][\A r \in Slots :
         (reqs[r].kind = "status" /\ reqs'[r] # reqs[r])
            => UNCHANGED <<generations, userCredits>>]_vars

\* The subscription the status handler of slot r answers with, and the step in
\* which a status query answers.
SubRead(r) ==
    IF reqs[r].pc = "s_sub" THEN getActiveSubscription(reqs[r].customer) ELSE NoSub

StatusAnswer(r) == reqs[r].kind = "status" /\ Answering(r) /\ reqs'[r] # reqs[r]

\* C16: the status of a user with no entitling subscription and 0 credits reports
\* remainingGenerations = 1 - L for the user's lifetime count L, zero and negative
\* values included.
C16_FreeTierRemaining ==
    [][\A r \in Slots :
         (/\ StatusAnswer(r)
          /\ ~SubRead(r).row
          /\ userCredits[reqs[r].user].credits = 0)
            => /\ reqs'[r].code = 200
               /\ reqs'[r].remaining = 1 - TotalGenerations(reqs[r].user)
               /\ ~reqs'[r].unlimited]_vars

\* A user with 2 or more generations, no credits and no entitling subscription
\* was answered a negative remainingGenerations.
C16_Witness ==
    \E r \in Slots :
        /\ reqs[r].pc = "idle" /\ reqs[r].kind = "status" /\ reqs[r].code = 200
        /\ TotalGenerations("Aa") >= 2
        /\ userCredits["Aa"].credits = 0
        /\ ActiveSubsOf("cus_1") = {}
        /\ reqs[r].remaining = 1 - TotalGenerations("Aa")
        /\ reqs[r].remaining < 0

Entitled(c) ==
    \E s \in SubIds : /\ subscriptions[s].row
                       /\ subscriptions[s].customer = c
                       /\ subscriptions[s].status \in
                             {"active", "trialing", "past_due", "unpaid"}

PastDuePro(c) ==
    \E s \in SubIds : /\ subscriptions[s].row
                       /\ subscriptions[s].customer = c
                       /\ subscriptions[s].status = "past_due"
                       /\ subscriptions[s].priceId = PRICE_PRO

MonthStarts == budget'.tick < budget.tick

C22_UsersIndependent ==
    \A t \in Txs :
        (/\ txs[t].pc = "lock"
         /\ \A o \in Txs \ {t} : HoldsLock(o) => txs[o].user # txs[t].user)
           => ENABLED TxLock(t)

\* C23: a transaction that has ended holds no lock, whether it committed or a
\* statement of it failed; every call waiting for its lock gets it; and every call
\* that holds it ends, returning the created generation or "No generations
\* remaining", or throwing the error of its own failed insert.
Ended(t) == txs[t].pc = "idle" /\ txs[t].result \in {"created", "quota", "error"}

C23_LockReleased ==
    /\ [](\A t \in Txs : txs[t].pc = "idle" => ~HoldsLock(t))
    /\ \A t \in Txs : (txs[t].pc = "lock") ~> HoldsLock(t)
    /\ \A t \in Txs : HoldsLock(t) ~> Ended(t)

\* Two calls for the same user were made; the insert of one failed and the other
\* has since created its generation.
C23_Witness ==
    \E t, o \in Txs :
        /\ t # o
        /\ budget.req = MaxRequests - 2
        /\ txs[t].pc = "idle" /\ txs[t].result = "error" /\ txs[t].user = "Aa"
        /\ txs[o].pc = "idle" /\ txs[o].result = "created" /\ txs[o].user = "Aa"

\* C24: the count the writer reads under the lock is of the window the status
\* calculation uses. Called with the free entitlement (maximum 1), it returns
\* "No generations remaining" exactly when the calculation for a user with no
\* subscription and no credits gives remaining <= 0 on the same records; called
\* with the Pro entitlement (maximum 100), exactly when the calculation for a Pro
\* subscriber gives remaining <= 0.
Counting(t) == txs[t].pc = "count" /\ txs'[t] # txs[t]

CalculatorAllows(u, hasSub, limit) ==
    RemainingGenerations(TotalGenerations(u), countUserGenerationsThisMonth(u),
                         IF hasSub THEN userCredits[u].credits ELSE 0,
                         hasSub, limit) > 0

Inserting(r) == reqs[r].pc \in {"s_credIns", "a_ins"} /\ reqs'[r] # reqs[r]

C25_OneBalancePerUser ==
    /\ [](\A u \in Users : ~userCredits[u].row => userCredits[u].credits = 0)
    /\ [][/\ \A u \in Users :
                /\ userCredits[u].row => userCredits'[u].row
                /\ (~userCredits[u].row /\ userCredits'[u].row)
                      => /\ userCredits'[u].credits = 0
                         /\ \E r \in Slots : Inserting(r) /\ reqs[r].user = u
          /\ \A r \in Slots :
                (Inserting(r) /\ userCredits[reqs[r].user].row)
                   => /\ userCredits' = userCredits
                      /\ reqs'[r].pc = "idle"
                      /\ reqs'[r].code = 500]_vars

\* Two first accesses of a user ran concurrently: one inserted the zero row, the
\* insert of the other, a status query, was refused.
C25_Witness ==
    \E r \in Slots :
        /\ reqs[r].pc = "idle" /\ reqs[r].kind = "status" /\ reqs[r].code = 500
        /\ userCredits["BB"] = [row |-> TRUE, credits |-> 0]
        /\ userCredits["Aa"].row = FALSE

\* C26 as stated: the handler of every event that passed signature verification
\* answers 200, whatever the event and whatever the outcome of applying it.
Answers(r) == reqs[r].pc # "idle" /\ reqs'[r].pc = "idle"

ApplyThrows(r) ==
    reqs[r].pc = "a_ins" /\ userCredits[reqs[r].user].row

CreateThrows(r) ==
    /\ reqs[r].kind = "gen" /\ reqs[r].pc = "g_create"
    /\ reqs'[r] # reqs[r]
    /\ generations' = generations

C27_FailureRetried ==
    [][\A r \in Slots :
         CreateThrows(r) => reqs'[r].pc = "s_gens" /\ reqs'[r].code # 500]_vars

\* C28: a user is linked to at most one billing customer: the customers the
\* processor has created for a user, in a customers row or about to be inserted
\* by a checkout in flight, are never two.
ProcessorCustomersOf(u) ==
    CustomersOf(u) \cup
    {reqs[r].customer : r \in {s \in Slots : /\ reqs[s].kind = "checkout"
                                             /\ reqs[s].pc = "c_ins"
                                             /\ reqs[s].user = u}}

C28_OneCustomerPerUser ==
    \A u \in Users : /\ Cardinality(CustomersOf(u)) <= 1
                     /\ Cardinality(ProcessorCustomersOf(u)) <= 1

\* C29: a failing lookup of the subscription changes no balance: no credit is
\* taken from a user whose customer holds an entitling subscription.
Subscribed(u) ==
    getCustomerByUserId(u) # None /\ Entitled(getCustomerByUserId(u))

C29_SubscriberKeepsCredits ==
    [][\A u \in Users :
         userCredits'[u].credits < userCredits[u].credits => ~Subscribed(u)]_vars

\* C30: generation records are only added, one at a time, and only by the
\* createGeneration of a generation attempt, for the attempt's user. No other step
\* (of a status query, a billing event, a payment confirmation or a checkout)
\* changes a user's records; the start of a month changes none either, it only
\* makes the rows of the month rows of an earlier month.
CreatesFor(r, u) ==
    /\ reqs[r].kind = "gen" /\ reqs[r].pc = "g_create" /\ reqs[r].user = u
    /\ reqs'[r] # reqs[r]

C30_GenerationsOnlyGrow ==
    [][\A u \in Users :
         /\ TotalGenerations(u)' >= TotalGenerations(u)
         /\ generations'[u].old >= generations[u].old
         /\ generations'[u] # generations[u] =>
               \/ MonthStarts /\ TotalGenerations(u)' = TotalGenerations(u)
               \/ /\ \E r \in Slots : CreatesFor(r, u)
                  /\ generations'[u] = [generations[u] EXCEPT !.cur = @ + 1]]_vars

\* A checkout and a generation attempt of a user with no generation were both
\* answered 200, and the user has the one generation of the attempt.
C30_Witness ==
    \E r, o \in Slots :
        /\ reqs[r].pc = "idle" /\ reqs[r].kind = "checkout" /\ reqs[r].code = 200
        /\ reqs[o].pc = "idle" /\ reqs[o].kind = "gen" /\ reqs[o].code = 200
        /\ customers[reqs[r].customer] = "Aa"
        /\ generations["Aa"] = [old |-> 0, cur |-> 1]

\* C31: a user who never held a subscription (no subscription row of a customer
\* of the user exists, and rows are never removed) has at most 1 + G generations,
\* G being the credits granted to the user so far.
C31_GenerationsWithinGrants ==
    \A u \in Users : NoSubscription(u) => TotalGenerations(u) <= 1 + granted[u]

\* C32: in every status answer remainingGenerations is -1 exactly when
\* isUnlimited is true, and isUnlimited is true only with a subscription.
C32_SentinelIffUnlimited ==
    [][\A r \in Slots :
         StatusAnswer(r) =>
            /\ (reqs'[r].remaining = -1) <=> reqs'[r].unlimited
            /\ reqs'[r].unlimited => SubRead(r).row]_vars

\* C33: a subscription row that a customer.subscription.deleted event has set to
\* canceled is not set to an entitling status by any later step.
C33_CanceledStaysCanceled ==
    [][\A s \in SubIds :
         (subscriptions[s].row /\ subscriptions[s].status = "canceled")
            => subscriptions'[s].status \notin
                  {"active", "trialing", "past_due", "unpaid"}]_vars

\* C34: a step of a generation attempt changes a balance only in its deductCredit,
\* which is reached only when the attempt's status read showed credits > 0 and no
\* subscription, and which takes exactly 1 from the attempt's user and nothing
\* from anyone else; an attempt answered 200 without deductCredit (its status
\* showed a subscription, or no credits) has changed no user_credits row in the
\* step that created its generation.
Attempting(r) ==
    reqs[r].kind = "gen" /\ reqs[r].pc # "idle" /\ reqs'[r] # reqs[r]

C35_OneEndpointPerUrl == Cardinality(RegisteredAt(SERVER_WEBHOOK_URL)) <= 1

\* C36: in every call of runStripeMigrations the SQL of the files runs in
\* ascending file-name order; over all calls no file's SQL runs twice; and a
\* migration whose SQL fails is not recorded and ends the call, no later file of
\* that call being run.
RanAscending ==
    \A i, j \in 1..Len(ran) :
        (i < j /\ ran[i].call = ran[j].call) => Before(ran[i].file, ran[j].file)

RanOnce ==
    \A i, j \in 1..Len(ran) : i # j => ran[i].file # ran[j].file

QueryFails ==
    /\ runner.pc = "loop"
    /\ runner'.pc = "done"
    /\ runner.index <= Len(runner.files)

C36_AscendingOnceStopping ==
    [][/\ RanAscending'
       /\ RanOnce'
       /\ QueryFails => /\ migrations' = migrations
                        /\ ran' = ran
                        /\ runner'.result = "threw"
       /\ runner.pc = "done" => ran' = ran /\ migrations' = migrations]_vars

\* C37: when no start() is under way, every registered endpoint a start() of the
\* handler created is the one the handler holds (this.webhookId); and a start()
\* that created an endpoint and reported 'degraded' has left that endpoint
\* deleted.
CreatedByHandler == {e \in Registered : endpoints[e].by = "handler"}

C37_NoEndpointLeftBehind ==
    handler.pc = "idle" =>
       /\ CreatedByHandler \subseteq {handler.webhookId}
       /\ (handler.status = "degraded" /\ handler.webhook # None)
             => handler.webhook \notin Registered
====
